---- MODULE Spec2Model ----
(***************************************************************************)
(* Model of the LFU cache of internal/lfu/lfu.go.                          *)
(*                                                                         *)
(* The heap of the cache is modelled pointer by pointer: nodeValue and     *)
(* nodeList objects live in two arenas, a pointer is an arena index and    *)
(* NIL is the nil pointer.  Every method of cacheImpl is an operator on    *)
(* the heap that performs the assignments of the source in source order;   *)
(* a nil dereference makes the operation panic.                            *)
(***************************************************************************)
EXTENDS Integers, Sequences, FiniteSets, TLC

\* ------------------------------------------------------------------ bounds
MaxKey == 3     \* keys are 1..MaxKey
MaxFreq == 3    \* frequency bumps are issued only below this frequency

\* Capacity arguments are -1..MaxCap: every capacity that a cache of at
\* most MaxKey keys can fill, and the negative one.
MaxCap == MaxKey - 1

\* ------------------------------------------------------- program constants
DefaultCapacity == 5

\* The run of TestIterator: New(4), then Put(k, 10 * k) for k = 1..5.
ScenarioECapacity == 4
ScenarioELastKey == 5
ScenarioEFactor == 10

\* The keys the operations are called with.
Keys == 1..MaxKey
\* The type K: every key a cache is ever asked about.
KeyType == 1..(IF MaxKey > ScenarioELastKey THEN MaxKey ELSE ScenarioELastKey)
\* V is any type and the cache never looks into a value: two values, both
\* different from the zero value, tell an overwritten entry from a kept one.
Values == {1, 2}
zeroVal == 0

NIL == 0
sentinel == 1
ErrNone == "nil"
ErrKeyNotFound == "key not found"

\* The two arenas.  A cache never reaches more nodeValue objects than one
\* over the keys it can hold, nor more than MaxKey + 3 nodeList objects
\* (sentinel included).
ValIds == 1..((IF MaxKey > ScenarioECapacity THEN MaxKey ELSE ScenarioECapacity) + 1)
ListIds == 1..(MaxKey + 3)

\* Zero values of the two struct types.
nodeValue == [key |-> 0, value |-> zeroVal, next |-> NIL, prev |-> NIL, frequency |-> NIL]
nodeList == [frequency |-> 0, prev |-> NIL, next |-> NIL, first |-> NIL, last |-> NIL]

VARIABLES
    constructed, \* New returned an instance
    capacity,    \* cacheImpl.capacity
    mp,          \* cacheImpl.mp: key -> *nodeValue, NIL when the key is absent
    ent,         \* the nodeValue objects
    lst,         \* the nodeList objects; lst[sentinel] is frequencies.sentinel
    panicked,    \* an operation panicked
    op,          \* the last call made on the cache and what it returned
    recency,     \* history: the cached keys, most recently touched first
    hits,        \* history: Get hits and updating Puts of a key since its insertion
    written,     \* history: the value of the last Put of a cached key
    evictedHot   \* history (SpecHist): the keys not cached now that were evicted
                 \* at a frequency > 1

hist == <<recency, hits, written, evictedHot>>
vars == <<constructed, capacity, mp, ent, lst, panicked, op, recency, hits, written, evictedHot>>

\* ------------------------------------------------------------ heap helpers
Heap(m, e, l, p) == [mp |-> m, ent |-> e, lst |-> l, panicked |-> p]

Panic(h) == [h EXCEPT !.panicked = TRUE]

\* The element of a singleton set.  Only({e(x) : x \in {d}}) reads "let x be
\* the value of d in e(x)": d is evaluated once, as a statement's effect is.
Only(S) == CHOOSE x \in S : TRUE

\* One round of pointer chasing from the sets rv (nodeValue) and rl (nodeList).
ReachStep(h, rv, rl) ==
    [rv |-> (rv \cup {h.ent[v].next : v \in rv} \cup {h.ent[v].prev : v \in rv}
                \cup {h.lst[b].first : b \in rl} \cup {h.lst[b].last : b \in rl}) \ {NIL},
     rl |-> (rl \cup {h.lst[b].next : b \in rl} \cup {h.lst[b].prev : b \in rl}
                \cup {h.ent[v].frequency : v \in rv}) \ {NIL}]

RECURSIVE ReachFix(_, _, _)
ReachFix(h, rv, rl) ==
    Only({IF r.rv = rv /\ r.rl = rl THEN r ELSE ReachFix(h, r.rv, r.rl) :
              r \in {ReachStep(h, rv, rl)}})

\* The objects the cache still references: everything else is garbage.
Reachable(h) ==
    Only({ReachFix(h, rv, {sentinel}) : rv \in {{h.mp[k] : k \in KeyType} \ {NIL}}})

Min(S) == CHOOSE x \in S : \A y \in S : x <= y

\* Allocation of a nodeValue / nodeList: an address that holds no object.
\* An address is free when it holds the zero value, which no allocated
\* object is (a nodeValue has a key, a nodeList a frequency >= 1) and which
\* Collect leaves behind.  Addresses are not observable, so the allocator's
\* choice is fixed: the preferred address when it is free, the lowest free
\* address otherwise.
NewValId(h, prefer) ==
    Only({IF prefer \in free THEN prefer ELSE Min(free) :
              free \in {{v \in ValIds : h.ent[v] = nodeValue}}})

NewListId(h, prefer) ==
    Only({IF prefer \in free THEN prefer ELSE Min(free) :
              free \in {{b \in ListIds \ {sentinel} : h.lst[b] = nodeList}}})

\* Garbage collection: unreferenced objects are returned to the arena.
Collect(h) ==
    Only({[h EXCEPT !.ent = [v \in ValIds |-> IF v \in r.rv THEN h.ent[v] ELSE nodeValue],
                    !.lst = [b \in ListIds |-> IF b \in r.rl THEN h.lst[b] ELSE nodeList]] :
              r \in {Reachable(h)}})

\* ------------------------------------------------------------- lfu.go code
\* newNodeList: the nodeList value built from its five arguments.
newNodeList(frequency, first, last, prev, next) ==
    [frequency |-> frequency, first |-> first, last |-> last, prev |-> prev, next |-> next]

\* newList: the heap of an empty list, only the zero sentinel allocated.
newList ==
    [b \in ListIds |-> IF b = sentinel THEN newNodeList(0, NIL, NIL, NIL, NIL) ELSE nodeList]

\* The statements of addListFrontOrAfter once node is allocated.
addListLink(h, frequency, first, bfr, node) ==
    LET h1 == [h EXCEPT !.lst[node] = newNodeList(frequency, first, first, bfr, h.lst[bfr].next)]
        h2 == [h1 EXCEPT !.lst[bfr].next = node]
        nxt == h2.lst[node].next
        h3 == IF nxt # NIL
              THEN [h2 EXCEPT !.lst[nxt].prev = node]
              ELSE [h2 EXCEPT !.lst[sentinel].prev = node]
    IN IF first = NIL THEN Panic(h3)
       ELSE [h3 EXCEPT !.ent[first].frequency = node, !.ent[first].prev = NIL]

\* list.addListFrontOrAfter(frequency, first, before...): before is the
\* variadic argument, a sequence of at most one nodeList pointer.
addListFrontOrAfter(h, frequency, first, before) ==
    LET bfr == IF Len(before) > 0 THEN before[1] ELSE sentinel
    IN IF h.panicked THEN h
       ELSE IF bfr = NIL THEN Panic(h)
       ELSE Only({addListLink(h, frequency, first, bfr, node) :
                      node \in {NewListId(h, frequency + 1)}})

\* Mutant of addFrontByFreq: the node is linked behind the last node of l
\* instead of in front of the first.
addFrontByFreq_atBack(h, l, newFirst) ==
    IF h.panicked THEN h
    ELSE IF newFirst = NIL \/ l = NIL THEN Panic(h)
    ELSE
     LET oldLast == h.lst[l].last
         h1 == [h EXCEPT !.ent[newFirst].next = NIL, !.ent[newFirst].prev = oldLast]
     IN IF oldLast = NIL THEN Panic(h1)
        ELSE [h1 EXCEPT !.ent[oldLast].next = newFirst,
                        !.lst[l].last = newFirst,
                        !.ent[newFirst].frequency = l]

\* nodeList.addFrontByFreq(newFirst) on the nodeList l.
addFrontByFreq(h, l, newFirst) ==
    IF h.panicked THEN h
    ELSE IF newFirst = NIL \/ l = NIL THEN Panic(h)
    ELSE
     LET h1 == [h EXCEPT !.ent[newFirst].prev = NIL, !.ent[newFirst].next = h.lst[l].first]
         oldFirst == h1.lst[l].first
     IN IF oldFirst = NIL THEN Panic(h1)
        ELSE [h1 EXCEPT !.ent[oldFirst].prev = newFirst,
                        !.lst[l].first = newFirst,
                        !.ent[newFirst].frequency = l]

\* Mutant of untie: the bucket's first is set to value.next whether or not
\* value was the first node.
untie_firstAlways(h, value) ==
    IF h.panicked THEN h
    ELSE IF value = NIL THEN Panic(h)
    ELSE
     LET p == h.ent[value].prev
         h1 == IF p # NIL THEN [h EXCEPT !.ent[p].next = h.ent[value].next] ELSE h
         n == h1.ent[value].next
         h2 == IF n # NIL THEN [h1 EXCEPT !.ent[n].prev = h1.ent[value].prev] ELSE h1
         f == h2.ent[value].frequency
     IN IF f = NIL THEN Panic(h2)
        ELSE
         LET h3 == [h2 EXCEPT !.lst[f].first = h2.ent[value].next]
             h4 == IF h3.lst[f].last = value
                   THEN [h3 EXCEPT !.lst[f].last = h3.ent[value].prev] ELSE h3
         IN [h4 EXCEPT !.ent[value].prev = NIL, !.ent[value].next = NIL]

\* nodeValue.untie() on the nodeValue value.
untie(h, value) ==
    IF h.panicked THEN h
    ELSE IF value = NIL THEN Panic(h)
    ELSE
     LET p == h.ent[value].prev
         h1 == IF p # NIL THEN [h EXCEPT !.ent[p].next = h.ent[value].next] ELSE h
         n == h1.ent[value].next
         h2 == IF n # NIL THEN [h1 EXCEPT !.ent[n].prev = h1.ent[value].prev] ELSE h1
         f == h2.ent[value].frequency
     IN IF f = NIL THEN Panic(h2)
        ELSE
         LET h3 == IF h2.lst[f].first = value
                   THEN [h2 EXCEPT !.lst[f].first = h2.ent[value].next] ELSE h2
             h4 == IF h3.lst[f].last = value
                   THEN [h3 EXCEPT !.lst[f].last = h3.ent[value].prev] ELSE h3
         IN [h4 EXCEPT !.ent[value].prev = NIL, !.ent[value].next = NIL]

\* cacheImpl.Size: len(l.mp).
Size(h) == Cardinality({k \in KeyType : h.mp[k] # NIL})

\* Get, lines 179-183: the node moves to the bucket of the next frequency,
\* a new one unless currentNode's successor has that frequency.  skipGap is
\* FALSE in the code; TRUE is the bug of reusing whatever successor exists.
GetMove(h1, value, currentNode, skipGap) ==
    LET next == h1.lst[currentNode].next
    IN IF \/ next = NIL
          \/ (~skipGap /\ h1.lst[currentNode].frequency + 1 # h1.lst[next].frequency)
       THEN addListFrontOrAfter(h1, h1.lst[currentNode].frequency + 1, value, <<currentNode>>)
       ELSE addFrontByFreq(h1, h1.lst[currentNode].next, value)

\* Mutant of the unlinking in Get: the successor's prev keeps pointing at
\* the unlinked bucket.
GetUnlink_forwardOnly(h2, currentNode) ==
    IF h2.panicked THEN h2
    ELSE IF h2.lst[currentNode].first # NIL THEN h2
    ELSE LET prevNode == h2.lst[currentNode].prev
         IN IF prevNode = NIL THEN Panic(h2)
            ELSE [h2 EXCEPT !.lst[prevNode].next = h2.lst[currentNode].next]

\* Get, lines 184-190: currentNode is unlinked from the chain when the node
\* was its only one.
GetUnlink(h2, currentNode) ==
    IF h2.panicked THEN h2
    ELSE IF h2.lst[currentNode].first # NIL THEN h2
    ELSE LET prevNode == h2.lst[currentNode].prev
         IN IF prevNode = NIL THEN Panic(h2)
            ELSE LET g1 == [h2 EXCEPT !.lst[prevNode].next = h2.lst[currentNode].next]
                     cn == g1.lst[currentNode].next
                 IN IF cn # NIL THEN [g1 EXCEPT !.lst[cn].prev = prevNode] ELSE g1

\* Get, line 191: what a hit returns from the heap h3 it leaves.
GetReturn(h3, value) ==
    [h |-> h3, value |-> IF h3.panicked THEN zeroVal ELSE h3.ent[value].value, err |-> ErrNone]

\* Mutants of Get, told apart by bug:
\*   "skipGap"      the successor bucket is reused whenever there is one,
\*                  whatever its frequency;
\*   "missNoError"  a miss returns the zero value with a nil error;
\*   "dropEmptied"  the index entry of the key goes with its emptied bucket;
\*   "keepEmptied"  an emptied bucket stays in the chain.
GetWithBug(h, key, bug) ==
    LET value == h.mp[key]
    IN IF value = NIL
       THEN [h |-> h, value |-> zeroVal,
             err |-> IF bug = "missNoError" THEN ErrNone ELSE ErrKeyNotFound]
       ELSE Only({
              IF h1.panicked THEN GetReturn(h1, value)
              ELSE Only({
                     Only({GetReturn(IF bug = "dropEmptied" /\ h3 # h2
                                     THEN [h3 EXCEPT !.mp[key] = NIL] ELSE h3, value) :
                               h3 \in {IF bug = "keepEmptied" THEN h2
                                       ELSE GetUnlink(h2, h1.ent[value].frequency)}}) :
                     h2 \in {GetMove(h1, value, h1.ent[value].frequency, bug = "skipGap")}}) :
              h1 \in {untie(h, value)}})

Get_skipGap(h, key) == GetWithBug(h, key, "skipGap")
Get_missNoError(h, key) == GetWithBug(h, key, "missNoError")
Get_dropEmptied(h, key) == GetWithBug(h, key, "dropEmptied")
Get_keepEmptied(h, key) == GetWithBug(h, key, "keepEmptied")

\* cacheImpl.Get(key): the heap afterwards, the value and the error returned.
\* h1 is the heap after value.untie(), h2 after the move to the next
\* frequency, h3 after the unlinking of the emptied bucket; currentNode is
\* value.frequency as read after untie.
Get(h, key) ==
    LET value == h.mp[key]
    IN IF value = NIL
       THEN [h |-> h, value |-> zeroVal, err |-> ErrKeyNotFound]
       ELSE Only({
              IF h1.panicked THEN GetReturn(h1, value)
              ELSE Only({
                     Only({GetReturn(h3, value) :
                               h3 \in {GetUnlink(h2, h1.ent[value].frequency)}}) :
                     h2 \in {GetMove(h1, value, h1.ent[value].frequency, FALSE)}}) :
              h1 \in {untie(h, value)}})

\* Mutant of delLast: the key of the first node of the bucket (the most
\* recently touched) is deleted from the index instead of the last one's.
delLast_first(h) ==
    LET lastFreqNode == h.lst[sentinel].next
    IN IF h.panicked \/ lastFreqNode = NIL THEN h
       ELSE IF h.lst[lastFreqNode].first = NIL THEN Panic(h)
       ELSE
        LET victim == h.lst[lastFreqNode].first
            h1 == [h EXCEPT !.mp[h.ent[victim].key] = NIL]
        IN IF h1.ent[victim].next = NIL
           THEN LET n == h1.lst[lastFreqNode].next
                    h2 == IF n # NIL THEN [h1 EXCEPT !.lst[n].prev = sentinel] ELSE h1
                IN [h2 EXCEPT !.lst[sentinel].next = h2.lst[h2.lst[sentinel].next].next]
           ELSE LET vn == h1.ent[victim].next
                    h2 == [h1 EXCEPT !.ent[vn].prev = NIL]
                IN [h2 EXCEPT !.lst[lastFreqNode].first = vn]

\* Mutant of delLast: the node is unlinked from its bucket but its key is
\* not deleted from the index.
delLast_keepIndex(h) ==
    LET lastFreqNode == h.lst[sentinel].next
    IN IF h.panicked \/ lastFreqNode = NIL THEN h
       ELSE IF h.lst[lastFreqNode].last = NIL THEN Panic(h)
       ELSE
        LET last == h.lst[lastFreqNode].last
            first == h.lst[lastFreqNode].first
        IN IF first = NIL \/ h.ent[first].next = NIL
           THEN LET n == h.lst[lastFreqNode].next
                    h2 == IF n # NIL THEN [h EXCEPT !.lst[n].prev = sentinel] ELSE h
                IN [h2 EXCEPT !.lst[sentinel].next = h2.lst[h2.lst[sentinel].next].next]
           ELSE LET lp == h.ent[last].prev
                IN IF lp = NIL THEN Panic(h)
                   ELSE LET h2 == [h EXCEPT !.ent[lp].next = NIL]
                        IN [h2 EXCEPT !.lst[h2.lst[sentinel].next].last =
                                          h2.ent[h2.lst[lastFreqNode].last].prev]

\* Mutant of delLast: the bucket's last keeps pointing at the node that was
\* unlinked from a bucket of several.
delLast_staleLast(h) ==
    LET lastFreqNode == h.lst[sentinel].next
    IN IF h.panicked \/ lastFreqNode = NIL THEN h
       ELSE IF h.lst[lastFreqNode].last = NIL THEN Panic(h)
       ELSE
        LET last == h.lst[lastFreqNode].last
            h1 == [h EXCEPT !.mp[h.ent[last].key] = NIL]
            first == h1.lst[lastFreqNode].first
        IN IF first = NIL \/ h1.ent[first].next = NIL
           THEN LET n == h1.lst[lastFreqNode].next
                    h2 == IF n # NIL THEN [h1 EXCEPT !.lst[n].prev = sentinel] ELSE h1
                IN [h2 EXCEPT !.lst[sentinel].next = h2.lst[h2.lst[sentinel].next].next]
           ELSE LET lp == h1.ent[last].prev
                IN IF lp = NIL THEN Panic(h1)
                   ELSE [h1 EXCEPT !.ent[lp].next = NIL]

\* cacheImpl.delLast.
delLast(h) ==
    LET lastFreqNode == h.lst[sentinel].next
    IN IF h.panicked \/ lastFreqNode = NIL THEN h
       ELSE IF h.lst[lastFreqNode].last = NIL THEN Panic(h)
       ELSE
        LET last == h.lst[lastFreqNode].last
            h1 == [h EXCEPT !.mp[h.ent[last].key] = NIL]
            first == h1.lst[lastFreqNode].first
        IN IF first = NIL \/ h1.ent[first].next = NIL
           THEN LET n == h1.lst[lastFreqNode].next
                    h2 == IF n # NIL THEN [h1 EXCEPT !.lst[n].prev = sentinel] ELSE h1
                IN [h2 EXCEPT !.lst[sentinel].next = h2.lst[h2.lst[sentinel].next].next]
           ELSE LET lp == h1.ent[last].prev
                IN IF lp = NIL THEN Panic(h1)
                   ELSE LET h2 == [h1 EXCEPT !.ent[lp].next = NIL]
                        IN [h2 EXCEPT !.lst[h2.lst[sentinel].next].last =
                                          h2.ent[h2.lst[lastFreqNode].last].prev]

\* Put, lines 202-209: the update of a cached key.  keepValue is FALSE in
\* the code; TRUE is the bug of leaving the stored value as it was.
PutUpdate(h, key, value, keepValue) ==
    Only({IF r.err # ErrNone THEN Panic(r.h) ELSE r.h :
              r \in {Get(IF keepValue THEN h
                         ELSE [h EXCEPT !.ent[h.mp[key]].value = value], key)}})

\* Put, lines 215-221: the node of a new key, allocated at the address node,
\* joins the frequency-1 bucket and the index.  joinFirst is FALSE in the
\* code; TRUE is the bug of joining the first bucket whatever its frequency.
PutInsert(h1, key, value, node, joinFirst) ==
    LET firstFreqNode == h1.lst[sentinel].next
        h2 == [h1 EXCEPT !.ent[node] = [key |-> key, value |-> value, next |-> NIL,
                                       prev |-> NIL, frequency |-> firstFreqNode]]
    IN Only({IF h3.panicked THEN h3 ELSE [h3 EXCEPT !.mp[key] = node] :
                 h3 \in {IF \/ firstFreqNode = NIL
                            \/ (~joinFirst /\ h2.lst[firstFreqNode].frequency # 1)
                         THEN addListFrontOrAfter(h2, 1, node, <<>>)
                         ELSE addFrontByFreq(h2, firstFreqNode, node)}})

\* Mutant of Put: the node of a new key always gets a new bucket of
\* frequency 1 at the front of the chain, also when there is one.
Put_alwaysNewBucket(h, cap, key, value) ==
    IF h.mp[key] # NIL
    THEN PutUpdate(h, key, value, FALSE)
    ELSE Only({
           IF h1.panicked THEN h1
           ELSE Only({
                  Only({IF h3.panicked THEN h3 ELSE [h3 EXCEPT !.mp[key] = node] :
                            h3 \in {addListFrontOrAfter(
                                        [h1 EXCEPT !.ent[node] =
                                            [key |-> key, value |-> value, next |-> NIL,
                                             prev |-> NIL,
                                             frequency |-> h1.lst[sentinel].next]],
                                        1, node, <<>>)}}) :
                  node \in {NewValId(h1, key)}}) :
           h1 \in {IF Size(h) >= cap THEN Collect(delLast(h)) ELSE h}})

\* Mutant of Put: a Put of a new key into a full cache evicts and returns
\* without inserting the key.
Put_evictOnly(h, cap, key, value) ==
    IF h.mp[key] # NIL
    THEN PutUpdate(h, key, value, FALSE)
    ELSE IF Size(h) >= cap THEN Collect(delLast(h))
    ELSE Only({PutInsert(h, key, value, node, FALSE) : node \in {NewValId(h, key)}})

\* Mutants of Put, told apart by bug:
\*   "keepValue"   an update leaves the stored value as it was;
\*   "evictFirst"  the capacity check runs before the lookup of the key;
\*   "joinFirst"   a new node joins the first bucket whatever its frequency;
\*   "evictEarly"  the capacity check counts the key about to be inserted.
PutWithBug(h, cap, key, value, bug) ==
    Only({
      IF h0.mp[key] # NIL
      THEN PutUpdate(h0, key, value, bug = "keepValue")
      ELSE Only({
             IF h1.panicked THEN h1
             ELSE Only({PutInsert(h1, key, value, node, bug = "joinFirst") :
                            node \in {NewValId(h1, key)}}) :
             h1 \in {IF /\ bug # "evictFirst"
                         /\ Size(h0) + (IF bug = "evictEarly" THEN 1 ELSE 0) >= cap
                      THEN Collect(delLast(h0)) ELSE h0}}) :
      h0 \in {IF bug = "evictFirst" /\ Size(h) >= cap THEN Collect(delLast(h)) ELSE h}})

Put_keepValue(h, cap, key, value) == PutWithBug(h, cap, key, value, "keepValue")
Put_evictFirst(h, cap, key, value) == PutWithBug(h, cap, key, value, "evictFirst")
Put_joinFirst(h, cap, key, value) == PutWithBug(h, cap, key, value, "joinFirst")
Put_evictEarly(h, cap, key, value) == PutWithBug(h, cap, key, value, "evictEarly")

\* cacheImpl.Put(key, value): the heap afterwards.  h1 is the heap after the
\* capacity check of lines 211-213; what delLast unlinked is garbage from
\* then on and its addresses are free for the node allocated next.
Put(h, cap, key, value) ==
    IF h.mp[key] # NIL
    THEN PutUpdate(h, key, value, FALSE)
    ELSE Only({
           IF h1.panicked THEN h1
           ELSE Only({PutInsert(h1, key, value, node, FALSE) :
                          node \in {NewValId(h1, key)}}) :
           h1 \in {IF Size(h) >= cap THEN Collect(delLast(h)) ELSE h}})

\* cacheImpl.GetKeyFrequency(key): the frequency and the error returned.
\* Mutant of GetKeyFrequency: the frequency read is that of the first bucket
\* of the chain, not that of the bucket the node is in.
GetKeyFrequency_ofFirstBucket(h, key) ==
    LET val == h.mp[key]
    IN IF val = NIL THEN [freq |-> 0, err |-> ErrKeyNotFound, panicked |-> FALSE]
       ELSE IF h.lst[sentinel].next = NIL
            THEN [freq |-> 0, err |-> ErrNone, panicked |-> TRUE]
            ELSE [freq |-> h.lst[h.lst[sentinel].next].frequency, err |-> ErrNone,
                  panicked |-> FALSE]

GetKeyFrequency(h, key) ==
    LET val == h.mp[key]
    IN IF val = NIL THEN [freq |-> 0, err |-> ErrKeyNotFound, panicked |-> FALSE]
       ELSE IF h.ent[val].frequency = NIL
            THEN [freq |-> 0, err |-> ErrNone, panicked |-> TRUE]
            ELSE [freq |-> h.lst[h.ent[val].frequency].frequency, err |-> ErrNone,
                  panicked |-> FALSE]

\* cacheImpl.All: the pairs handed to yield, in order.  The consumer is
\* modelled by stopAt: yield returns false on call number stopAt, and never
\* when stopAt = 0.  inner tells which of the two loops is running; fuel
\* bounds the walk, so that a cyclic chain shows as diverged.
RECURSIVE AllLoop(_, _, _, _, _, _, _)
AllLoop(h, freqNode, valNode, inner, out, stopAt, fuel) ==
    IF fuel = 0 THEN [seq |-> out, stopped |-> FALSE, diverged |-> TRUE]
    ELSE IF ~inner
    THEN IF freqNode = NIL \/ freqNode = sentinel
         THEN [seq |-> out, stopped |-> FALSE, diverged |-> FALSE]
         ELSE Only({AllLoop(h, freqNode, first, TRUE, out, stopAt, fuel - 1) :
                        first \in {h.lst[freqNode].first}})
    ELSE IF valNode = NIL
         THEN Only({AllLoop(h, prev, NIL, FALSE, out, stopAt, fuel - 1) :
                        prev \in {h.lst[freqNode].prev}})
         ELSE Only({IF Len(o) = stopAt
                    THEN [seq |-> o, stopped |-> TRUE, diverged |-> FALSE]
                    ELSE Only({AllLoop(h, freqNode, next, TRUE, o, stopAt, fuel - 1) :
                                   next \in {h.ent[valNode].next}}) :
                        o \in {Append(out, <<h.ent[valNode].key, h.ent[valNode].value>>)}})

\* Mutant of All: the walk starts at sentinel.next, the bucket of the lowest
\* frequency, instead of sentinel.prev.
All_fromLowest(h, stopAt) ==
    AllLoop(h, h.lst[sentinel].next, NIL, FALSE, <<>>, stopAt,
            2 * (Cardinality(ValIds) + Cardinality(ListIds)) + 2)

\* Mutant of All: a yield that returns false leaves the inner loop only
\* (break), and the walk goes on with the next bucket.
RECURSIVE AllLoop_break(_, _, _, _, _, _, _)
AllLoop_break(h, freqNode, valNode, inner, out, stopAt, fuel) ==
    IF fuel = 0 THEN [seq |-> out, stopped |-> FALSE, diverged |-> TRUE]
    ELSE IF ~inner
    THEN IF freqNode = NIL \/ freqNode = sentinel
         THEN [seq |-> out, stopped |-> FALSE, diverged |-> FALSE]
         ELSE Only({AllLoop_break(h, freqNode, first, TRUE, out, stopAt, fuel - 1) :
                        first \in {h.lst[freqNode].first}})
    ELSE IF valNode = NIL
         THEN Only({AllLoop_break(h, prev, NIL, FALSE, out, stopAt, fuel - 1) :
                        prev \in {h.lst[freqNode].prev}})
         ELSE Only({IF Len(o) = stopAt
                    THEN AllLoop_break(h, h.lst[freqNode].prev, NIL, FALSE, o, stopAt,
                                       fuel - 1)
                    ELSE Only({AllLoop_break(h, freqNode, next, TRUE, o, stopAt, fuel - 1) :
                                   next \in {h.ent[valNode].next}}) :
                        o \in {Append(out, <<h.ent[valNode].key, h.ent[valNode].value>>)}})

All_break(h, stopAt) ==
    AllLoop_break(h, h.lst[sentinel].prev, NIL, FALSE, <<>>, stopAt,
                  2 * (Cardinality(ValIds) + Cardinality(ListIds)) + 2)

All(h, stopAt) ==
    AllLoop(h, h.lst[sentinel].prev, NIL, FALSE, <<>>, stopAt,
            2 * (Cardinality(ValIds) + Cardinality(ListIds)) + 2)

\* Mutant of New: the capacity argument is checked and then ignored.
New_ignoreArgument(capacityArg) ==
    IF Len(capacityArg) > 0 /\ capacityArg[1] < 0
    THEN [constructed |-> FALSE, panicked |-> TRUE, capacity |-> 0,
          mp |-> [k \in KeyType |-> NIL], ent |-> [v \in ValIds |-> nodeValue],
          lst |-> [b \in ListIds |-> nodeList]]
    ELSE [constructed |-> TRUE, panicked |-> FALSE, capacity |-> DefaultCapacity,
          mp |-> [k \in KeyType |-> NIL], ent |-> [v \in ValIds |-> nodeValue],
          lst |-> newList]

\* Mutant of New: no check of the sign of the capacity argument.
New_noCheck(capacityArg) ==
    [constructed |-> TRUE, panicked |-> FALSE,
     capacity |-> IF Len(capacityArg) > 0 THEN capacityArg[1] ELSE DefaultCapacity,
     mp |-> [k \in KeyType |-> NIL], ent |-> [v \in ValIds |-> nodeValue],
     lst |-> newList]

\* New(capacity...): capacityArg is the variadic argument, a sequence of at
\* most one integer.  A negative capacity panics and no instance is returned.
New(capacityArg) ==
    IF Len(capacityArg) > 0 /\ capacityArg[1] < 0
    THEN [constructed |-> FALSE, panicked |-> TRUE, capacity |-> 0,
          mp |-> [k \in KeyType |-> NIL], ent |-> [v \in ValIds |-> nodeValue],
          lst |-> [b \in ListIds |-> nodeList]]
    ELSE [constructed |-> TRUE, panicked |-> FALSE,
          capacity |-> IF Len(capacityArg) > 0 THEN capacityArg[1] ELSE DefaultCapacity,
          mp |-> [k \in KeyType |-> NIL], ent |-> [v \in ValIds |-> nodeValue],
          lst |-> newList]

\* cacheImpl.Capacity.
Capacity(cap) == cap

\* --------------------------------------------------------- the state machine
cur == Heap(mp, ent, lst, panicked)

Cached == {k \in KeyType : mp[k] # NIL}

\* A call: its name and arguments, what it returned, the keys that were
\* cached when it was made, and whether its key had been evicted at a
\* frequency > 1.  seq is what All yielded and, for New, the variadic
\* capacity argument.
Call(name, key, value, ret, err, seq, stopAt) ==
    [name |-> name, key |-> key, value |-> value, ret |-> ret, err |-> err,
     seq |-> seq, stopAt |-> stopAt, before |-> Cached,
     hot |-> key \in evictedHot]

\* The capacity arguments a cache is constructed with.
CapArgs == {<<c>> : c \in (-1)..MaxCap}

RECURSIVE Without(_, _)
Without(s, drop) ==
    IF s = <<>> THEN <<>>
    ELSE IF Head(s) \in drop THEN Without(Tail(s), drop)
    ELSE <<Head(s)>> \o Without(Tail(s), drop)

\* History after a touch of key (a Get hit, or a Put of value) that leaves
\* the heap g; value is zeroVal for a Get.  The history of evictions is
\* kept by TrackEvicted, in the specification that records it.
Touch(g, key, value) ==
    /\ recency' = IF g.mp[key] # NIL
                  THEN <<key>> \o Without(recency, {key} \cup {k \in KeyType : g.mp[k] = NIL})
                  ELSE Without(recency, {k \in KeyType : g.mp[k] = NIL})
    /\ hits' = [k \in KeyType |-> IF g.mp[k] = NIL THEN 0
                               ELSE IF k # key THEN hits[k]
                               ELSE IF mp[key] # NIL THEN hits[k] + 1
                               ELSE 0]
    /\ written' = [k \in KeyType |-> IF g.mp[k] = NIL THEN zeroVal
                                  ELSE IF k = key /\ value # zeroVal THEN value
                                  ELSE written[k]]

\* The heap g an operation leaves becomes the state, garbage collected.
Store(g) ==
    \E c \in {IF g.panicked THEN g ELSE Collect(g)} :
        /\ mp' = c.mp
        /\ ent' = c.ent
        /\ lst' = c.lst
        /\ panicked' = c.panicked

Live == constructed /\ ~panicked

\* A frequency bump of key stays within the model's frequency bound.
MayBump(key) ==
    mp[key] # NIL => GetKeyFrequency(cur, key).freq < MaxFreq

\* The state New leaves when called with one of the arguments args.
Construct(args) ==
    \E capacity0 \in args :
        LET c == New(capacity0)
        IN /\ constructed = c.constructed
           /\ capacity = c.capacity
           /\ mp = c.mp
           /\ ent = c.ent
           /\ lst = c.lst
           /\ panicked = c.panicked
           /\ recency = <<>>
           /\ hits = [k \in KeyType |-> 0]
           /\ written = [k \in KeyType |-> zeroVal]
           /\ evictedHot = {}
           /\ op = Call("New", 0, 0, 0, ErrNone, capacity0, 0)

Init == Construct(CapArgs)

\* A key joins evictedHot when it leaves the index with a frequency > 1 and
\* stays there until it is put again.
TrackEvicted ==
    evictedHot' = {k \in KeyType : /\ mp'[k] = NIL
                                 /\ \/ k \in evictedHot
                                    \/ mp[k] # NIL /\ hits[k] > 0}

GetCall(key) ==
    /\ Live
    /\ MayBump(key)
    /\ \E r \in {Get(cur, key)} :
          /\ Store(r.h)
          /\ op' = Call("Get", key, 0, r.value, r.err, <<>>, 0)
          /\ IF r.err = ErrNone THEN Touch(r.h, key, zeroVal)
             ELSE UNCHANGED <<recency, hits, written>>
    /\ UNCHANGED <<constructed, capacity>>

PutCall(key, value) ==
    /\ Live
    /\ MayBump(key)
    /\ \E g \in {Put(cur, capacity, key, value)} :
          /\ Store(g)
          /\ op' = Call("Put", key, value, 0, ErrNone, <<>>, 0)
          /\ Touch(g, key, value)
    /\ UNCHANGED <<constructed, capacity>>

DoGet(key) == GetCall(key) /\ UNCHANGED evictedHot

DoPut(key, value) == PutCall(key, value) /\ UNCHANGED evictedHot

DoGetKeyFrequency(key) ==
    /\ Live
    /\ \E r \in {GetKeyFrequency(cur, key)} :
          /\ op' = Call("GetKeyFrequency", key, 0, r.freq, r.err, <<>>, 0)
          /\ panicked' = r.panicked
    /\ UNCHANGED <<constructed, capacity, mp, ent, lst, hist>>

\* Mutant of All: the traversal reads the first pair through Get, which
\* counts as a use of its key.
DoAll_touching(stopAt) ==
    /\ Live
    /\ \E a \in {All(cur, stopAt)} :
          /\ op' = Call("All", 0, 0, 0, ErrNone, a.seq, stopAt)
          /\ IF a.seq = <<>> \/ GetKeyFrequency(cur, a.seq[1][1]).freq >= MaxFreq
             THEN UNCHANGED <<mp, ent, lst, panicked, recency, hits, written>>
             ELSE \E r \in {Get(cur, a.seq[1][1])} :
                      Store(r.h) /\ Touch(r.h, a.seq[1][1], zeroVal)
    /\ UNCHANGED <<constructed, capacity, evictedHot>>

DoAll(stopAt) ==
    /\ Live
    /\ op' = Call("All", 0, 0, 0, ErrNone, All(cur, stopAt).seq, stopAt)
    /\ UNCHANGED <<constructed, capacity, mp, ent, lst, panicked, hist>>

DoSize ==
    /\ Live
    /\ op' = Call("Size", 0, 0, Size(cur), ErrNone, <<>>, 0)
    /\ UNCHANGED <<constructed, capacity, mp, ent, lst, panicked, hist>>

DoCapacity ==
    /\ Live
    /\ op' = Call("Capacity", 0, 0, Capacity(capacity), ErrNone, <<>>, 0)
    /\ UNCHANGED <<constructed, capacity, mp, ent, lst, panicked, hist>>

\* Every operation of the Cache interface, in any order.
Next ==
    \/ \E key \in Keys : DoGet(key)
    \/ \E key \in Keys, value \in Values : DoPut(key, value)
    \/ \E key \in Keys : DoGetKeyFrequency(key)
    \/ \E stopAt \in 0..MaxKey : DoAll(stopAt)
    \/ DoSize
    \/ DoCapacity

Spec == Init /\ [][Next]_vars

\* The two operations that change the cache, with the history of evictions.
HistGet(key) == GetCall(key) /\ TrackEvicted

HistPut(key, value) == PutCall(key, value) /\ TrackEvicted

NextHist ==
    \/ \E key \in Keys : HistGet(key)
    \/ \E key \in Keys, value \in Values : HistPut(key, value)

SpecHist == Init /\ [][NextHist]_vars

\* Every operation, on a cache constructed with or without a capacity.
InitNew == Construct(CapArgs \cup {<<>>})

SpecNew == InitNew /\ [][Next]_vars

\* The run of TestIterator and its shorter relatives: New(c) for a capacity
\* c up to 4, then Put(k, 10 * k) for k = 1, 2, ... up to 5 in that order,
\* with All and Size called at any point.  The key put last is cached, so
\* the next key of the run is one over the highest cached key.
InitE == Construct({<<c>> : c \in 0..ScenarioECapacity})

NextKeyE == IF Cached = {} THEN 1 ELSE 1 + (CHOOSE k \in Cached : \A j \in Cached : j <= k)

PutE ==
    /\ NextKeyE <= ScenarioELastKey
    /\ PutCall(NextKeyE, ScenarioEFactor * NextKeyE)
    /\ UNCHANGED evictedHot

NextE ==
    \/ PutE
    \/ \E stopAt \in 0..ScenarioECapacity : DoAll(stopAt)
    \/ DoSize

SpecE == InitE /\ [][NextE]_vars

\* Get, statement by statement.  A Get hit is three steps: line 177
\* (value.untie()), lines 178-183 (currentNode is read and the node moves to
\* the bucket of the next frequency), lines 184-191 (currentNode is unlinked
\* when empty, and the value is returned).  While a Get is between its steps
\* op holds its frame: the key, the node (value) and, once read, currentNode.
GetFrame(name, key, value, currentNode) ==
    [name |-> name, key |-> key, value |-> value, currentNode |-> currentNode,
     ret |-> 0, err |-> ErrNone, seq |-> <<>>, stopAt |-> 0, before |-> op.before,
     hot |-> FALSE]

InGet == op.name \in {"Get.untie", "Get.move"}

GetUntieStep(key) ==
    /\ Live /\ ~InGet
    /\ mp[key] # NIL
    /\ MayBump(key)
    /\ Store(untie(cur, mp[key]))
    /\ op' = [GetFrame("Get.untie", key, mp[key], NIL) EXCEPT !.before = Cached]
    /\ UNCHANGED <<constructed, capacity, hist>>

GetMoveStep ==
    /\ Live /\ op.name = "Get.untie"
    /\ \E currentNode \in {ent[op.value].frequency} :
          /\ Store(GetMove(cur, op.value, currentNode, FALSE))
          /\ op' = GetFrame("Get.move", op.key, op.value, currentNode)
    /\ UNCHANGED <<constructed, capacity, hist>>

GetUnlinkStep ==
    /\ Live /\ op.name = "Get.move"
    /\ \E r \in {GetReturn(GetUnlink(cur, op.currentNode), op.value)} :
          /\ Store(r.h)
          /\ op' = [Call("Get", op.key, 0, r.value, r.err, <<>>, 0)
                       EXCEPT !.before = op.before]
          /\ Touch(r.h, op.key, zeroVal)
    /\ UNCHANGED <<constructed, capacity, evictedHot>>

GetMissStep(key) == ~InGet /\ mp[key] = NIL /\ DoGet(key)

PutStep(key, value) == ~InGet /\ DoPut(key, value)

NextSteps ==
    \/ \E key \in Keys : GetUntieStep(key)
    \/ GetMoveStep
    \/ GetUnlinkStep
    \/ \E key \in Keys : GetMissStep(key)
    \/ \E key \in Keys, value \in Values : PutStep(key, value)

SpecSteps == Init /\ [][NextSteps]_vars

\* ------------------------------------------------------------------ claims
Freq(k) == GetKeyFrequency(cur, k).freq

Pos(s, k) == CHOOSE i \in 1..Len(s) : s[i] = k

\* a was touched after b.
MoreRecent(a, b) == Pos(recency, a) < Pos(recency, b)

\* The keys a step drops from the index.
Evicted == {k \in Cached : mp'[k] = NIL}

\* C1: after every operation on a cache of any capacity c >= 0,
\* 0 <= Size() <= Capacity().  (Fails for c = 0: the first Put is retained.)
C1_SizeWithinCapacity ==
    Live => 0 <= Size(cur) /\ Size(cur) <= Capacity(capacity)

\* C2: the entry evicted by a Put of a new key has the minimal frequency of
\* the entries cached before the Put, and among the entries of that frequency
\* it is the one touched longest ago.
C2_EvictsLeastFrequentOldest ==
    [][(op'.name = "Put" /\ op'.key \notin Cached) =>
         \A e \in Evicted : \A k \in Cached \ {e} :
             /\ Freq(e) <= Freq(k)
             /\ Freq(e) = Freq(k) => MoreRecent(k, e)]_vars

\* A Put of a new key has just evicted one of two entries of frequency 1:
\* the one that stays has the lowest frequency there is, so the evicted one
\* had it too.
C2_Witness ==
    /\ op.name = "Put" /\ op.key \notin op.before
    /\ Cardinality(op.before) = 2
    /\ Cardinality(op.before \ Cached) = 1
    /\ \E k \in Cached \cap op.before : Freq(k) = 1

\* C3: a Put of a key that is not cached, made when Size() == Capacity(),
\* removes exactly one cached entry and adds the new one.  (Fails for
\* capacity 0, where nothing is there to remove.)
C3_FullPutReplacesOne ==
    (Live /\ op.name = "Put" /\ op.key \notin op.before
          /\ Cardinality(op.before) = capacity)
        => \E e \in op.before : Cached = (op.before \ {e}) \cup {op.key}

\* C4: a Get right after Put(k, v) succeeds and returns v, whether k was new
\* or cached and whether the Put evicted; a Get hit on k returns the value of
\* the last Put of k.
C4_PutThenGet ==
    Live =>
        /\ op.name = "Put" =>
               /\ op.key \in Cached
               /\ \E r \in {Get(cur, op.key)} : r.err = ErrNone /\ r.value = op.value
        /\ (op.name = "Get" /\ op.err = ErrNone) => op.ret = written[op.key]

\* The Put of a new key into a full cache of capacity 2 has been made.
C4_Witness ==
    /\ Live /\ op.name = "Put" /\ op.key \notin op.before
    /\ capacity = 2 /\ Cardinality(op.before) = 2
    /\ ent[mp[op.key]].value = op.value

\* C5: the frequency of a cached key is 1 plus the number of Get hits and
\* updating Puts on it since it was inserted, so each of them adds exactly 1.
C5_FrequencyCountsTouches ==
    Live => \A k \in Cached :
                /\ GetKeyFrequency(cur, k).err = ErrNone
                /\ GetKeyFrequency(cur, k).freq = 1 + hits[k]

\* An updating Put has taken a key to frequency 3, its second bump.
C5_Witness ==
    /\ Live /\ op.name = "Put" /\ op.key \in op.before
    /\ hits[op.key] = 2 /\ Freq(op.key) = 3

\* C6: a Get of a key that is not cached returns ErrKeyNotFound with the zero
\* value and changes nothing: same index, nodes, Size() and All() sequence.
C6_GetMissChangesNothing ==
    [][(op'.name = "Get" /\ mp[op'.key] = NIL) =>
         /\ op'.err = ErrKeyNotFound /\ op'.ret = zeroVal
         /\ UNCHANGED <<constructed, capacity, mp, ent, lst, panicked>>
         /\ Size(cur') = Size(cur)
         /\ All(cur', 0) = All(cur, 0)
         /\ \A k \in Keys : GetKeyFrequency(cur', k) = GetKeyFrequency(cur, k)]_vars

\* A Get has missed on a key that was cached before and has been evicted.
C6_Witness ==
    /\ op.name = "Get" /\ op.err = ErrKeyNotFound
    /\ op.hot /\ Cached # {}

\* C7: a complete All() traversal yields non-increasing frequencies, and of
\* two keys of equal frequency the more recently touched one first.
C7_AllOrdered ==
    Live =>
        LET s == All(cur, 0).seq
        IN \A i, j \in 1..Len(s) :
               i < j => /\ s[i][1] \in Cached /\ s[j][1] \in Cached
                        /\ Freq(s[i][1]) >= Freq(s[j][1])
                        /\ Freq(s[i][1]) = Freq(s[j][1]) => MoreRecent(s[i][1], s[j][1])

\* A complete traversal has yielded two keys of frequency 2, the lower key
\* first.
C7_Witness ==
    /\ op.name = "All" /\ op.stopAt = 0 /\ Len(op.seq) = 2
    /\ Freq(op.seq[1][1]) = 2 /\ Freq(op.seq[2][1]) = 2
    /\ op.seq[1][1] < op.seq[2][1]

\* C8: a Put on a cached key evicts nothing, also in a full cache: the cached
\* keys and Size() stay, and no other key changes value or frequency.
C8_UpdateNeverEvicts ==
    [][(op'.name = "Put" /\ mp[op'.key] # NIL) =>
         /\ {k \in Keys : mp'[k] # NIL} = Cached
         /\ Size(cur') = Size(cur)
         /\ \A k \in Cached \ {op'.key} :
                /\ GetKeyFrequency(cur', k) = GetKeyFrequency(cur, k)
                /\ ent'[mp'[k]].value = ent[mp[k]].value]_vars

\* A cached key has been updated by a Put in a full cache of capacity 2.
C8_Witness ==
    /\ Live /\ op.name = "Put" /\ op.key \in op.before
    /\ capacity = 2 /\ Size(cur) = 2

\* C9: a Get on a cached key changes neither Size() nor the cached keys.
C9_GetHitKeepsKeys ==
    (Live /\ op.name = "Get" /\ op.key \in op.before) =>
        /\ op.err = ErrNone
        /\ Cached = op.before
        /\ Size(cur) = Cardinality(op.before)

\* A Get has hit in a full cache and emptied the bucket its key was in.
C9_Witness ==
    /\ Live /\ op.name = "Get" /\ op.key \in op.before
    /\ capacity = 2 /\ Size(cur) = 2
    /\ \A k \in Cached \ {op.key} : Freq(k) # Freq(op.key) - 1

\* C10: right after the Put of a key that was not cached its frequency is 1,
\* also when the key had been cached with a higher frequency and evicted.
C10_NewKeyStartsAtOne ==
    (Live /\ op.name = "Put" /\ op.key \notin op.before) =>
        GetKeyFrequency(cur, op.key) = [freq |-> 1, err |-> ErrNone, panicked |-> FALSE]

\* A key that was evicted at a frequency > 1 has been put again, next to a
\* key of a higher frequency.
C10_Witness ==
    /\ Live /\ op.name = "Put" /\ op.key \notin op.before /\ op.hot
    /\ \E k \in Cached : Freq(k) > 1

\* C11: a Put of a key that is not cached, made while Size() < Capacity(),
\* evicts nothing: every cached key stays cached with its value and its
\* frequency, the new key joins them and Size() grows by exactly 1.
C11_PutBelowCapacityKeepsAll ==
    [][(op'.name = "Put" /\ mp[op'.key] = NIL /\ Size(cur) < Capacity(capacity)) =>
         /\ {k \in KeyType : mp'[k] # NIL} = Cached \cup {op'.key}
         /\ Size(cur') = Size(cur) + 1
         /\ \A k \in Cached :
                /\ GetKeyFrequency(cur', k) = GetKeyFrequency(cur, k)
                /\ ent'[mp'[k]].value = ent[mp[k]].value]_vars

\* A second key has been put into a cache of capacity 2 next to a key of
\* frequency 2, one short of the capacity.
C11_Witness ==
    /\ Live /\ op.name = "Put" /\ op.key \notin op.before
    /\ capacity = 2 /\ Cardinality(op.before) = 1 /\ Size(cur) = 2
    /\ \E k \in op.before : k \in Cached /\ Freq(k) = 2

\* C12: GetKeyFrequency(k) returns the frequency of k's bucket when k is
\* cached, which is 1 plus the touches of k since its insertion, and
\* ErrKeyNotFound with 0 when it is not; in both cases the cache is left as
\* it was: index, nodes, buckets, capacity, All() and every frequency.
C12_GetKeyFrequencyReadsOnly ==
    [][op'.name = "GetKeyFrequency" =>
         /\ mp[op'.key] # NIL =>
                /\ op'.err = ErrNone
                /\ op'.ret = lst[ent[mp[op'.key]].frequency].frequency
                /\ op'.ret = 1 + hits[op'.key]
         /\ mp[op'.key] = NIL => op'.err = ErrKeyNotFound /\ op'.ret = 0
         /\ UNCHANGED <<constructed, capacity, mp, ent, lst, panicked, recency>>
         /\ All(cur', 0) = All(cur, 0)
         /\ \A k \in Keys : GetKeyFrequency(cur', k) = GetKeyFrequency(cur, k)]_vars

\* GetKeyFrequency has returned 2 for a key that shares the cache with a
\* key of frequency 1.
C12_Witness ==
    /\ Live /\ op.name = "GetKeyFrequency" /\ op.err = ErrNone /\ op.ret = 2
    /\ \E k \in Cached \ {op.key} : Freq(k) = 1

\* The nodes found by walking the chain from sentinel.next along next and
\* every bucket's list from first along next: <<bucket, node>> pairs in the
\* order of the walk.  v is the node the walk is at in bucket b.
RECURSIVE ChainWalk(_, _, _, _)
ChainWalk(h, b, v, fuel) ==
    IF fuel = 0 \/ b = NIL THEN <<>>
    ELSE IF v = NIL
         THEN Only({ChainWalk(h, nb, IF nb = NIL THEN NIL ELSE h.lst[nb].first, fuel - 1) :
                        nb \in {h.lst[b].next}})
         ELSE <<<<b, v>>>> \o ChainWalk(h, b, h.ent[v].next, fuel - 1)

Chained ==
    Only({ChainWalk(cur, b, IF b = NIL THEN NIL ELSE lst[b].first,
                    2 * (Cardinality(ValIds) + Cardinality(ListIds))) :
              b \in {lst[sentinel].next}})

\* C13: the keys of the index and the keys found by walking every bucket's
\* list are the same multiset: every node of the walk is the indexed node of
\* its key and points to the bucket it is in, no key is met twice, every
\* indexed key is met, and Size() is the length of the walk.
C13_IndexMatchesBuckets ==
    Live =>
        \E w \in {Chained} :
            /\ Len(w) = Size(cur)
            /\ Size(cur) = Cardinality(Cached)
            /\ \A i \in 1..Len(w) :
                   /\ ent[w[i][2]].key \in Cached
                   /\ mp[ent[w[i][2]].key] = w[i][2]
                   /\ ent[w[i][2]].frequency = w[i][1]
            /\ \A i, j \in 1..Len(w) : i < j => ent[w[i][2]].key # ent[w[j][2]].key
            /\ \A k \in Cached : \E i \in 1..Len(w) : w[i][2] = mp[k]

\* A Put has evicted a key from a full cache of capacity 2 and left two
\* buckets of one key each.
C13_Witness ==
    /\ Live /\ op.name = "Put" /\ capacity = 2
    /\ op.before \ Cached # {}
    /\ Len(Chained) = 2 /\ Chained[1][1] # Chained[2][1]

\* C14: a complete All() traversal ends and yields exactly Size() pairs:
\* every cached key once, with the value stored for it (the value of its
\* last Put), and no other key; on an empty cache it yields nothing.
C14_AllYieldsEveryEntryOnce ==
    Live =>
        \E a \in {All(cur, 0)} :
            /\ ~a.diverged /\ ~a.stopped
            /\ Len(a.seq) = Size(cur)
            /\ {a.seq[i][1] : i \in 1..Len(a.seq)} = Cached
            /\ \A i \in 1..Len(a.seq) :
                   /\ a.seq[i][2] = ent[mp[a.seq[i][1]]].value
                   /\ a.seq[i][2] = written[a.seq[i][1]]
            /\ \A i, j \in 1..Len(a.seq) : i < j => a.seq[i][1] # a.seq[j][1]
            /\ Cached = {} => a.seq = <<>>
            /\ (op.name = "All" /\ op.stopAt = 0) => op.seq = a.seq

\* A complete traversal has yielded the two keys of a cache, one of
\* frequency 2 and one of frequency 1, with two different values.
C14_Witness ==
    /\ Live /\ op.name = "All" /\ op.stopAt = 0 /\ Len(op.seq) = 2
    /\ Freq(op.seq[1][1]) = 2 /\ Freq(op.seq[2][1]) = 1
    /\ op.seq[1][2] # op.seq[2][2]

\* C15: when the consumer returns false on its call number n, yield is not
\* called again: the pairs delivered are the first n of the complete All()
\* sequence, all of it when it has fewer than n.
C15_AllStopsAtFalse ==
    (Live /\ op.name = "All" /\ op.stopAt > 0) =>
        \E full \in {All(cur, 0).seq} :
            /\ Len(op.seq) <= op.stopAt
            /\ op.seq = SubSeq(full, 1, IF op.stopAt < Len(full) THEN op.stopAt
                                                                ELSE Len(full))
            /\ All(cur, op.stopAt).stopped = (op.stopAt <= Len(full))

\* The consumer has stopped at the first pair of a cache that holds two
\* keys in two buckets.
C15_Witness ==
    /\ Live /\ op.name = "All" /\ op.stopAt = 1 /\ Len(op.seq) = 1
    /\ Size(cur) = 2
    /\ \E k \in Cached : Freq(k) < Freq(op.seq[1][1])

\* C16: a cache constructed with capacity 0 is always empty: Size() = 0, and
\* after a Put its key is not retained: Get and GetKeyFrequency on it return
\* ErrKeyNotFound and All() yields nothing.  (Fails: Put inserts the key
\* after delLast found nothing, or one other key, to evict.)
C16_CapacityZeroStaysEmpty ==
    (Live /\ capacity = 0) =>
        /\ Size(cur) = 0
        /\ op.name = "Put" =>
               /\ Get(cur, op.key).err = ErrKeyNotFound
               /\ GetKeyFrequency(cur, op.key).err = ErrKeyNotFound
               /\ All(cur, 0).seq = <<>>

\* C17: Capacity() is the capacity argument given to New, or 5
\* (DefaultCapacity) when none is given, and no operation changes it.
C17_CapacityFixed ==
    /\ [](Live =>
            /\ op.name = "New" =>
                   Capacity(capacity) = IF op.seq = <<>> THEN 5 ELSE op.seq[1]
            /\ op.name = "Capacity" => op.ret = Capacity(capacity)
            /\ DefaultCapacity = 5)
    /\ [][Capacity(capacity') = Capacity(capacity)]_vars

\* Capacity() has returned 5 on a cache constructed without an argument
\* that holds two keys or more.
C17_Witness ==
    /\ Live /\ op.name = "Capacity" /\ op.ret = 5
    /\ capacity = DefaultCapacity /\ Size(cur) >= 2

C19_OperationsTotal ==
    constructed =>
        /\ ~panicked
        /\ ~All(cur, 0).diverged
        /\ \A k \in Keys : ~Put(cur, capacity, k, 1).panicked

\* A Put has updated a key of a full cache and taken it to frequency 3,
\* through the internal Get and the unlinking of the bucket it emptied.
C19_Witness ==
    /\ Live /\ op.name = "Put" /\ op.key \in op.before
    /\ Size(cur) = capacity /\ Freq(op.key) = 3
    /\ \A k \in Cached \ {op.key} : Freq(k) # 2

\* The five Puts of scenario E have been made on a cache of capacity 4.
DoneE == Live /\ capacity = ScenarioECapacity /\ mp[ScenarioELastKey] # NIL

\* C20 as stated: after Put(1,10), ..., Put(5,50) on a cache of capacity 4
\* key 1, and only key 1, has been evicted and All() yields the keys
\* [5,4,3] with the values [50,40,30].  (Fails: All() yields four pairs.)
C20_ScenarioE_AsStated ==
    DoneE =>
        /\ Cached = {2, 3, 4, 5}
        /\ All(cur, 0).seq = << <<5, 50>>, <<4, 40>>, <<3, 30>> >>

\* C20, amended: after Put(1,10), ..., Put(5,50) on a cache of capacity 4
\* key 1, and only key 1, has been evicted (no key before the fifth Put);
\* a complete All() yields the keys [5,4,3,2] with the values [50,40,30,20],
\* and [5,4,3] with [50,40,30] are the pairs a consumer that returns false
\* on the fourth one, key 2, has been handed before it.
C20_ScenarioE ==
    /\ (Live /\ capacity = ScenarioECapacity /\ mp[ScenarioELastKey] = NIL) =>
           Cached = 1..(NextKeyE - 1)
    /\ DoneE =>
           /\ Cached = {2, 3, 4, 5} /\ Size(cur) = 4
           /\ All(cur, 0).seq = << <<5, 50>>, <<4, 40>>, <<3, 30>>, <<2, 20>> >>
           /\ All(cur, 4).seq = << <<5, 50>>, <<4, 40>>, <<3, 30>>, <<2, 20>> >>
           /\ All(cur, 4).stopped
           /\ All(cur, 3).seq = << <<5, 50>>, <<4, 40>>, <<3, 30>> >>
           /\ (op.name = "All" /\ op.stopAt = 4) =>
                  SubSeq(op.seq, 1, 3) = << <<5, 50>>, <<4, 40>>, <<3, 30>> >>

\* After the five Puts All has been called by a consumer that returns
\* false on the fourth pair.
C20_Witness ==
    /\ DoneE /\ op.name = "All" /\ op.stopAt = 4 /\ Len(op.seq) = 4
    /\ op.seq[4] = <<2, 20>>

\* A walk from x along the links nxt (a function from addresses to
\* addresses) until nil: the addresses met, in order.
RECURSIVE Walk(_, _, _)
Walk(nxt, x, fuel) ==
    IF x = NIL \/ fuel = 0 THEN <<>>
    ELSE <<x>> \o Walk(nxt, nxt[x], fuel - 1)

WalkFuel == Cardinality(ValIds) + Cardinality(ListIds) + 1

\* The buckets of the chain from sentinel.next along next, and from
\* sentinel.prev along prev up to the sentinel.
FwdBuckets == Walk([b \in ListIds |-> lst[b].next], lst[sentinel].next, WalkFuel)

BwdBuckets ==
    Walk([b \in ListIds |-> IF lst[b].prev = sentinel THEN NIL ELSE lst[b].prev],
         IF lst[sentinel].prev = sentinel THEN NIL ELSE lst[sentinel].prev, WalkFuel)

\* C21: the frequencies of the buckets of the chain, read from sentinel.next
\* along next, are strictly increasing and all >= 1, so no two buckets of
\* the chain have the same frequency.
C21_ChainStrictlyIncreasing ==
    Live =>
        \E c \in {FwdBuckets} :
            /\ Len(c) <= Cardinality(ListIds) - 1
            /\ \A i \in 1..Len(c) : lst[c[i]].frequency >= 1
            /\ \A i \in 1..(Len(c) - 1) : lst[c[i]].frequency < lst[c[i + 1]].frequency
            /\ \A i, j \in 1..Len(c) : i # j => lst[c[i]].frequency # lst[c[j]].frequency

\* A new key has been put in front of a bucket of frequency 3: the chain
\* reads 1, 3.
C21_Witness ==
    /\ Live /\ op.name = "Put" /\ op.key \notin op.before
    /\ Len(FwdBuckets) = 2
    /\ lst[FwdBuckets[1]].frequency = 1 /\ lst[FwdBuckets[2]].frequency = 3

\* C22: no bucket of the chain is empty after an operation: the buckets of
\* the chain are the buckets the cached nodes are in, and their frequencies
\* are exactly the frequencies the cached keys have.
C22_NoEmptyBucket ==
    Live =>
        \E c \in {FwdBuckets} :
            /\ \A i \in 1..Len(c) : lst[c[i]].first # NIL /\ lst[c[i]].last # NIL
            /\ {c[i] : i \in 1..Len(c)} = {ent[mp[k]].frequency : k \in Cached}
            /\ {lst[c[i]].frequency : i \in 1..Len(c)} = {1 + hits[k] : k \in Cached}
            /\ Cached = {} => c = <<>>

\* A Get has taken the only key of the bucket of frequency 2 to frequency
\* 3: the chain reads 1, 3.
C22_Witness ==
    /\ Live /\ op.name = "Get" /\ op.err = ErrNone /\ Freq(op.key) = 3
    /\ Len(FwdBuckets) = 2
    /\ lst[FwdBuckets[1]].frequency = 1 /\ lst[FwdBuckets[2]].frequency = 3

\* C23: an All() traversal, complete or stopped, changes nothing: index,
\* nodes, buckets, frequencies and recency order stay, and every traversal
\* made after it yields what it would have yielded before; of two
\* traversals with nothing between them the shorter is a prefix of the
\* other.
C23_AllReadsOnly ==
    [][op'.name = "All" =>
         /\ UNCHANGED <<constructed, capacity, mp, ent, lst, panicked, recency>>
         /\ \A k \in Keys : GetKeyFrequency(cur', k) = GetKeyFrequency(cur, k)
         /\ \A n \in 0..MaxKey : All(cur', n) = All(cur, n)
         /\ op'.seq = All(cur', op'.stopAt).seq
         /\ op.name = "All" =>
                IF Len(op.seq) <= Len(op'.seq)
                THEN op.seq = SubSeq(op'.seq, 1, Len(op.seq))
                ELSE op'.seq = SubSeq(op.seq, 1, Len(op'.seq))]_vars

\* A traversal stopped at its second pair has been made on a cache of two
\* keys of different frequencies.
C23_Witness ==
    /\ Live /\ op.name = "All" /\ op.stopAt = 2 /\ Len(op.seq) = 2
    /\ Freq(op.seq[1][1]) > Freq(op.seq[2][1])

\* C24: between operations the chain of a cache that is not empty is a
\* consistent doubly-linked list: sentinel.next is the bucket of the lowest
\* frequency, sentinel.prev the bucket of the highest, and the walk from
\* sentinel.prev along prev meets the buckets of the walk from sentinel.next
\* along next in reverse order and ends at the sentinel.
C24_ChainDoublyLinked ==
    (Live /\ Cached # {}) =>
        \E f \in {FwdBuckets} : \E b \in {BwdBuckets} :
            /\ Len(f) >= 1 /\ Len(b) = Len(f)
            /\ \A i \in 1..Len(f) : b[i] = f[Len(f) + 1 - i]
            /\ lst[sentinel].next = f[1] /\ lst[sentinel].prev = f[Len(f)]
            /\ lst[f[1]].prev = sentinel /\ lst[f[Len(f)]].next = NIL
            /\ \A i \in 1..(Len(f) - 1) : lst[f[i + 1]].prev = f[i]
            /\ \A k \in Cached : /\ lst[f[1]].frequency <= Freq(k)
                                  /\ Freq(k) <= lst[f[Len(f)]].frequency
            /\ \A i \in 1..Len(f) : \E k \in Cached : ent[mp[k]].frequency = f[i]

\* In a cache of capacity 1 a Put has evicted a key of frequency > 1, and
\* with it the only bucket, the one sentinel.prev pointed at.
C24_Witness ==
    /\ Live /\ op.name = "Put" /\ capacity = 1
    /\ op.before # {} /\ op.before \cap Cached = {}
    /\ op.before \subseteq evictedHot

\* Key a comes before key b in the sequence s of pairs.
Before(s, a, b) ==
    \E i, j \in 1..Len(s) : i < j /\ s[i][1] = a /\ s[j][1] = b

\* C25: a Get hit or a Put on key k leaves the value and the frequency of
\* every other key that is cached afterwards as they were, and keeps the
\* order of any two such keys in the All() sequence.
C25_TouchFrame ==
    [][((op'.name = "Get" /\ op'.err = ErrNone) \/ op'.name = "Put") =>
         \E others \in {{k \in Cached \ {op'.key} : mp'[k] # NIL}} :
         \E s \in {All(cur, 0).seq} : \E t \in {All(cur', 0).seq} :
             /\ \A k \in others :
                    /\ ent'[mp'[k]].value = ent[mp[k]].value
                    /\ GetKeyFrequency(cur', k) = GetKeyFrequency(cur, k)
             /\ \A a, b \in others : Before(s, a, b) = Before(t, a, b)
             /\ \A a \in others : \E i \in 1..Len(t) : t[i][1] = a]_vars

\* A Get has taken a key out of the bucket of frequency 1, where two other
\* keys stay.
C25_Witness ==
    /\ Live /\ op.name = "Get" /\ op.err = ErrNone /\ Size(cur) = 3
    /\ Freq(op.key) = 2
    /\ \E a, b \in Cached \ {op.key} : a # b /\ Freq(a) = 1 /\ Freq(b) = 1

\* C26: no step makes Size() smaller, and a Put leaves a key cached, so
\* that a cache is never empty again once a Put has been made.
C26_SizeNeverDecreases ==
    [][/\ Size(cur') >= Size(cur)
       /\ op'.name = "Put" => Size(cur') >= 1
       /\ Size(cur) >= 1 => Size(cur') >= 1]_vars

\* A Put has evicted the only key of a cache of capacity 1 and taken its
\* place.
C26_Witness ==
    /\ Live /\ op.name = "Put" /\ capacity = 1
    /\ op.before # {} /\ op.key \notin op.before /\ Size(cur) = 1

\* The nodes of bucket b from first along next, and from last along prev.
FwdNodes(b) == Walk([v \in ValIds |-> ent[v].next], lst[b].first, WalkFuel)

BwdNodes(b) == Walk([v \in ValIds |-> ent[v].prev], lst[b].last, WalkFuel)

\* C27: every bucket's first and last are the two ends of its list of
\* nodes (first.prev and last.next are nil, the walk back from last meets
\* the nodes of the walk from first in reverse), every node of the list is
\* the indexed node of its key and points back to the bucket, and every
\* cached key is in the list of the bucket it points to, whose frequency is
\* what GetKeyFrequency returns.
C27_BucketListsConsistent ==
    Live =>
        /\ \A i \in 1..Len(FwdBuckets) :
              \E b \in {FwdBuckets[i]} : \E f \in {FwdNodes(b)} : \E r \in {BwdNodes(b)} :
                  /\ Len(f) >= 1 /\ Len(r) = Len(f)
                  /\ \A j \in 1..Len(f) : r[j] = f[Len(f) + 1 - j]
                  /\ lst[b].first = f[1] /\ lst[b].last = f[Len(f)]
                  /\ ent[f[1]].prev = NIL /\ ent[f[Len(f)]].next = NIL
                  /\ \A j \in 1..Len(f) :
                         /\ ent[f[j]].frequency = b
                         /\ mp[ent[f[j]].key] = f[j]
        /\ \A k \in Cached :
              \E b \in {ent[mp[k]].frequency} :
                  /\ \E i \in 1..Len(FwdBuckets) : FwdBuckets[i] = b
                  /\ \E j \in 1..Len(FwdNodes(b)) : FwdNodes(b)[j] = mp[k]
                  /\ GetKeyFrequency(cur, k) =
                         [freq |-> lst[b].frequency, err |-> ErrNone, panicked |-> FALSE]

\* A Put has evicted the oldest of the two keys of the bucket of frequency
\* 1 and joined the one that stays.
C27_Witness ==
    /\ Live /\ op.name = "Put" /\ op.key \notin op.before
    /\ Cardinality(op.before) = 2 /\ Size(cur) = 2
    /\ Len(FwdBuckets) = 1 /\ Len(FwdNodes(FwdBuckets[1])) = 2

\* C28: in a Get hit the bucket the node left is unlinked from the chain,
\* when the node was its only one, before the node is inserted into the
\* bucket of the next frequency: once the node is in its new bucket no
\* empty bucket is in the chain.  (Fails: the code inserts the node first,
\* lines 179-183, and unlinks the emptied bucket afterwards, lines 184-190.)
C28_GetUnlinksBeforeMove ==
    (Live /\ op.name = "Get.move") =>
        \A i \in 1..Len(FwdBuckets) : lst[FwdBuckets[i]].first # NIL

====
